---- MODULE Spec2Model ----
(***************************************************************************)
(* Model of the chat store (src/src/stores/chat.ts) of supa-chat-flow,     *)
(* together with the parts of the Data Service (the SQL schema and its     *)
(* row-level-security policies) and of the Update Feed that the store's    *)
(* operations depend on.                                                   *)
(*                                                                         *)
(* Every async store operation is a task.  A task suspends at each remote  *)
(* call: the step that issues the call also executes it at the Data        *)
(* Service (reading or writing the tables atomically) and parks the        *)
(* response in the task; a later step delivers the response and runs the   *)
(* continuation up to the next remote call.  Other tasks and other clients *)
(* interleave between the two.                                             *)
(***************************************************************************)
EXTENDS Integers, Sequences, FiniteSets, TLC

VARIABLES
    authUser,     \* supabase.auth.getUser(): the signed-in user, or NoUser
    clock,        \* the Data Service's now()
    dbChats,      \* table public.chats: sequence of rows, id = index
    dbParts,      \* table public.chat_participants: set of rows
    dbMsgs,       \* table public.messages: sequence of rows, id = index
    subs,         \* Update Feed channels opened by subscribeToChat(s)
    feedQ,        \* feed events emitted and not yet delivered
    chats,        \* store: chats
    activeChat,   \* store: activeChat (0 = null)
    messages,     \* store: messages, chat id -> list (absent key = empty list)
    typingUsers,  \* store: typingUsers
    loading,      \* store: loading
    error,        \* store: error (NoError = null)
    tasks,        \* the async operations in flight
    ret,          \* what the step just taken returned, or the synchronous call it was
    authStore,    \* useAuthStore: user, session, profile, loading, error
    dbUsers,      \* table public.users: user id -> presence status
    errorFrom,    \* history: the operation whose failure the error field reports
    lostError,    \* history: failure messages a concurrent failure replaced
    lastTyping,   \* history: the last typing call made on each (chat, user) pair
    staleWrite,   \* history: which collections a late response made stale again
    lateWrite,    \* history: what callbacks of released channels wrote afterwards
    firstFound    \* history: the first existing chat a createDirectChat resolved
                  \* to, and for which pair (recorded under SpecTwice only)

vars == <<authUser, clock, dbChats, dbParts, dbMsgs, subs, feedQ, chats,
          activeChat, messages, typingUsers, loading, error, tasks, ret,
          authStore, dbUsers, errorFrom, lostError, lateWrite, staleWrite,
          lastTyping, firstFound>>

dbVars    == <<clock, dbChats, dbParts, dbMsgs>>
storeVars == <<chats, activeChat, messages, typingUsers, loading, error>>
NoFound   == [pair |-> {}, id |-> 0]
NoOrigin  == [op |-> "none", chat |-> 0]
NoReturn  == [kind |-> "none", user |-> "none", target |-> "none",
              result |-> [tag |-> "none", id |-> 0, msg |-> ""], had |-> FALSE]

-----------------------------------------------------------------------------
(* Bounds of the model *)

MaxTasks == 2     \* async operations that can be in flight together
MaxChats == 4     \* rows the chats table can hold
MaxMsgs  == 2     \* rows the messages table can hold
MaxSubs  == 2     \* channels opened over a run
MaxCalls == 2     \* times one channel's teardown handle is invoked
MaxClock == 5     \* last timestamp other clients' chat activity can stamp

Users    == {"u1", "u2", "u3"}
NoUser   == "none"
NoError  == "null"
ErrMsgs  == {"E1", "E2"}          \* messages a failing remote call reports
NotAuthenticated == "Not authenticated"

TaskIds  == 1..MaxTasks
TypingChats == {1, 2}
TypingPairs == TypingChats \X {"u2", "u3"}   \* (chatId, userId) of typing calls
ChatIds  == 1..MaxChats

-----------------------------------------------------------------------------
(* Sequence helpers *)

Range(s) == {s[i] : i \in 1..Len(s)}

-----------------------------------------------------------------------------
(* Data Service: tables and row-level security *)

\* get_user_chat_ids(user_uuid)
get_user_chat_ids(u) == {p.chat_id : p \in {q \in dbParts : q.user_id = u}}

\* public.users: display_name as written by handle_new_user
DisplayName(u) == u

\* The embedded chat_participants(user_id, is_admin, users(...)) of one chat,
\* as visible to the requesting user
ParticipantsOf(c) ==
    {[user_id |-> p.user_id, is_admin |-> p.is_admin,
      users |-> [id |-> p.user_id, display_name |-> DisplayName(p.user_id)]]
        : p \in {q \in dbParts : q.chat_id = c}}

\* Chats the requesting user may SELECT, inner-joined with their participants
VisibleChats(u) ==
    {c \in 1..Len(dbChats) : c \in get_user_chat_ids(u) /\ ParticipantsOf(c) # {}}

ChatRow(c) ==
    [id |-> c, type |-> dbChats[c].type, name |-> dbChats[c].name,
     created_by |-> dbChats[c].created_by, updated_at |-> dbChats[c].updated_at,
     chat_participants |-> ParticipantsOf(c)]

\* .order('updated_at', { ascending: false })
RECURSIVE OrderDesc(_)
OrderDesc(S) ==
    IF S = {} THEN <<>>
    ELSE LET c == CHOOSE x \in S :
                     \A y \in S : dbChats[y].updated_at <= dbChats[x].updated_at
         IN <<ChatRow(c)>> \o OrderDesc(S \ {c})

\* The chats query of fetchChats, as the Data Service answers it for authUser
ChatsQuery == OrderDesc(VisibleChats(authUser))

-----------------------------------------------------------------------------
(* Tasks *)

NoResp   == [st |-> "none", msg |-> "", data |-> <<>>]
OkResp(d)  == [st |-> "ok",  msg |-> "", data |-> d]
ErrResp(m) == [st |-> "err", msg |-> m,  data |-> <<>>]

\* What createDirectChat / createGroupChat resolve to: { chatId } or { error }
NoResult        == [tag |-> "none",   id |-> 0, msg |-> ""]
ChatIdResult(c) == [tag |-> "chatId", id |-> c, msg |-> ""]
ErrorResult(m)  == [tag |-> "error",  id |-> 0, msg |-> m]

Idle == [kind |-> "idle", pc |-> "idle", chat |-> 0, msg |-> 0, sub |-> 0,
         user |-> NoUser, target |-> NoUser, members |-> <<>>, qual |-> {},
         newChat |-> 0, resp |-> NoResp]

Free(t) == tasks[t].pc = "idle"

\* A new operation takes the first unused slot; a finished one frees its slot
CanStart(t) == Free(t) /\ \A s \in TaskIds : Free(s) => t <= s

-----------------------------------------------------------------------------
(* fetchChats *)

\* chats.map(chat => ({ ...chat, participants: chat.chat_participants }))
TransformChat(row) ==
    [id |-> row.id, type |-> row.type, name |-> row.name,
     created_by |-> row.created_by, updated_at |-> row.updated_at,
     chat_participants |-> row.chat_participants,
     participants |-> row.chat_participants]

TransformChats(data) == [i \in 1..Len(data) |-> TransformChat(data[i])]

\* set({ loading: true, error: null }); await supabase.from('chats').select(...)
\* s is the channel whose callback made the call (0: a direct call)
FetchChatsBegin(t, s) ==
    /\ loading' = TRUE
    /\ error' = NoError
    /\ \E r \in {OkResp(ChatsQuery)} \cup {ErrResp(m) : m \in ErrMsgs} :
          tasks' = [tasks EXCEPT ![t] =
                      [Idle EXCEPT !.kind = "fetchChats", !.pc = "fc_await",
                                   !.sub = s, !.resp = r]]

FetchChatsCall(t) ==
    /\ CanStart(t)
    /\ FetchChatsBegin(t, 0)
    /\ ret' = NoReturn /\ UNCHANGED <<firstFound, lastTyping, staleWrite, authStore, dbUsers, lateWrite, authUser, dbVars, subs, feedQ, chats, activeChat, messages,
                   typingUsers>>

\* A failure path that also empties the collection, which C8 must exclude
FetchChatsFailedClearing(t) ==
    /\ loading' = FALSE
    /\ error' = tasks[t].resp.msg
    /\ chats' = <<>>

\* if (error) { set({ loading: false, error: error.message }); return; }
FetchChatsFailed(t) ==
    /\ loading' = FALSE
    /\ error' = tasks[t].resp.msg
    /\ UNCHANGED chats

\* A merge instead of a full refresh, which C9 must exclude
FetchChatsMerged(t) ==
    /\ chats' = chats \o TransformChats(tasks[t].resp.data)
    /\ loading' = FALSE
    /\ UNCHANGED error

\* set({ chats: transformedChats, loading: false })
\* A load that discards a response older than the backend's present state
\* (request fencing), which C22 must exclude
FetchChatsLoadedFenced(t) ==
    /\ chats' = IF tasks[t].resp.data = ChatsQuery
                THEN TransformChats(tasks[t].resp.data) ELSE chats
    /\ loading' = FALSE
    /\ UNCHANGED error

FetchChatsLoaded(t) ==
    /\ chats' = TransformChats(tasks[t].resp.data)
    /\ loading' = FALSE
    /\ UNCHANGED error

FetchChatsResume(t) ==
    /\ tasks[t].pc = "fc_await"
    /\ IF tasks[t].resp.st = "err" THEN FetchChatsFailed(t) ELSE FetchChatsLoaded(t)
    /\ tasks' = [tasks EXCEPT ![t] = Idle]
    /\ ret' = NoReturn /\ UNCHANGED <<firstFound, lastTyping, authStore, dbUsers, authUser, dbVars, subs, feedQ, activeChat, messages,
                   typingUsers>>

-----------------------------------------------------------------------------
(* fetchMessages *)

\* A messages row as a query returns it (the joined display columns sender,
\* reply_message and reactions are left out: no operation reads them)
MessageRow(m) ==
    [id |-> m, chat_id |-> dbMsgs[m].chat_id, sender_id |-> dbMsgs[m].sender_id,
     deleted |-> dbMsgs[m].deleted, created_at |-> dbMsgs[m].created_at]

\* RLS "Users can view messages in their chats"
CanViewMessage(m) == dbMsgs[m].chat_id \in get_user_chat_ids(authUser)

\* .order('created_at', { ascending: true })
RECURSIVE OrderAsc(_)
OrderAsc(S) ==
    IF S = {} THEN <<>>
    ELSE LET m == CHOOSE x \in S :
                     \A y \in S : dbMsgs[x].created_at <= dbMsgs[y].created_at
         IN <<MessageRow(m)>> \o OrderAsc(S \ {m})

\* .eq('chat_id', chatId).eq('deleted', false).order('created_at', ...)
MessagesQuery(c) ==
    OrderAsc({m \in 1..Len(dbMsgs) :
                 /\ dbMsgs[m].chat_id = c
                 /\ dbMsgs[m].deleted = FALSE
                 /\ CanViewMessage(m)})

\* await supabase.from('messages').select(...)
FetchMessagesCall(t, c) ==
    /\ CanStart(t)
    /\ \E r \in {OkResp(MessagesQuery(c))} \cup {ErrResp(m) : m \in ErrMsgs} :
          tasks' = [tasks EXCEPT ![t] =
                      [Idle EXCEPT !.kind = "fetchMessages", !.pc = "fm_await",
                                   !.chat = c, !.resp = r]]
    /\ ret' = NoReturn /\ UNCHANGED <<firstFound, lastTyping, staleWrite, authStore, dbUsers, errorFrom, lostError, lateWrite, authUser, dbVars, subs, feedQ, storeVars>>

\* A failure that keeps the message already in the error field, which C23
\* must exclude
FetchMessagesFailedKeepingFirst(t) ==
    /\ error' = IF error = NoError THEN tasks[t].resp.msg ELSE error
    /\ UNCHANGED messages

\* if (error) { set({ error: error.message }); return; }
FetchMessagesFailed(t) ==
    /\ error' = tasks[t].resp.msg
    /\ UNCHANGED messages

\* A load that drops the other chats' lists, which C10 must exclude
FetchMessagesLoadedAlone(t) ==
    /\ messages' = [c \in ChatIds |->
                       IF c = tasks[t].chat THEN tasks[t].resp.data ELSE <<>>]
    /\ UNCHANGED error

\* set(state => ({ messages: { ...state.messages, [chatId]: messages } }))
FetchMessagesLoaded(t) ==
    /\ messages' = [messages EXCEPT ![tasks[t].chat] = tasks[t].resp.data]
    /\ UNCHANGED error

FetchMessagesResume(t) ==
    /\ tasks[t].pc = "fm_await"
    /\ IF tasks[t].resp.st = "err" THEN FetchMessagesFailed(t)
                                   ELSE FetchMessagesLoaded(t)
    /\ tasks' = [tasks EXCEPT ![t] = Idle]
    /\ ret' = NoReturn /\ UNCHANGED <<firstFound, lastTyping, authStore, dbUsers, lateWrite, authUser, dbVars, subs, feedQ, chats, activeChat,
                   typingUsers, loading>>

-----------------------------------------------------------------------------
(* Data Service writes to public.messages and public.chats, and the feed *)

\* The SELECT policies decide what a query returns and are modelled above.  A
\* write the Data Service refuses (policy, constraint, network) is one of the
\* failures every write call can nondeterministically report.

\* postgres_changes INSERT on messages, filter chat_id=eq.<chatId>: one event
\* for every open channel on that chat
\* A channel without the chat_id filter, which C29 must exclude
EventsForAnyChat(m, c) ==
    {[sub |-> s, msg |-> m, at |-> clock + 1] :
        s \in {x \in 1..Len(subs) : /\ subs[x].active
                                    /\ subs[x].table = "messages"}}

EventsFor(m, c) ==
    {[sub |-> s, msg |-> m, at |-> clock + 1] :
        s \in {x \in 1..Len(subs) : /\ subs[x].active
                                    /\ subs[x].table = "messages"
                                    /\ subs[x].chat = c}}

\* postgres_changes '*' on chats, no filter: one event for every open channel
\* on the table, when the session may see the changed row
ChatEventsFor(c) ==
    {[sub |-> s, msg |-> 0, at |-> clock + 1] :
        s \in {x \in 1..Len(subs) : /\ subs[x].active
                                    /\ subs[x].table = "chats"
                                    /\ c \in VisibleChats(authUser)}}

\* INSERT INTO messages (chat_id, sender_id, ...): created_at DEFAULT now()
InsertMessage(sender, c) ==
    /\ clock' = clock + 1
    /\ dbMsgs' = Append(dbMsgs, [chat_id |-> c, sender_id |-> sender,
                                 deleted |-> FALSE, created_at |-> clock + 1])
    /\ feedQ' = feedQ \cup EventsFor(Len(dbMsgs) + 1, c)

\* UPDATE chats SET updated_at = ... WHERE id = c; the update_chats_updated_at
\* trigger stamps now()
TouchChat(c) ==
    /\ clock' = clock + 1
    /\ dbChats' = [dbChats EXCEPT ![c].updated_at = clock + 1]
    /\ feedQ' = feedQ \cup ChatEventsFor(c)

-----------------------------------------------------------------------------
(* sendMessage *)

\* const { data: { user } } = await supabase.auth.getUser()
SendMessageCall(t, c) ==
    /\ CanStart(t)
    /\ tasks' = [tasks EXCEPT ![t] =
                   [Idle EXCEPT !.kind = "sendMessage", !.pc = "sm_user",
                                !.chat = c, !.user = authUser]]
    /\ UNCHANGED <<firstFound, lastTyping, staleWrite, authStore, dbUsers, errorFrom, lostError, lateWrite, authUser, dbVars, subs, feedQ, storeVars>>
    /\ ret' = NoReturn

\* if (!user) return;
SendMessageUnauthenticated(t) ==
    /\ tasks' = [tasks EXCEPT ![t] = Idle]
    /\ UNCHANGED <<dbVars, feedQ, error, messages>>

\* An insert that also appends the new message to the chat's in-memory list,
\* which C13 must exclude
SendMessageInsertAppending(t) ==
    LET u == tasks[t].user
        c == tasks[t].chat
    IN \/ /\ Len(dbMsgs) < MaxMsgs
          /\ InsertMessage(u, c)
          /\ tasks' = [tasks EXCEPT ![t].pc = "sm_insert", ![t].resp = OkResp(<<>>)]
          /\ messages' = [messages EXCEPT ![c] =
                             Append(@, [id |-> Len(dbMsgs) + 1, chat_id |-> c,
                                        sender_id |-> u, deleted |-> FALSE,
                                        created_at |-> clock + 1])]
          /\ UNCHANGED <<dbChats, dbParts, error>>
       \/ /\ \E m \in ErrMsgs :
               tasks' = [tasks EXCEPT ![t].pc = "sm_insert", ![t].resp = ErrResp(m)]
          /\ UNCHANGED <<dbVars, feedQ, error, messages>>

\* await supabase.from('messages').insert({ chat_id, sender_id: user.id, ... })
SendMessageInsert(t) ==
    LET u == tasks[t].user
        c == tasks[t].chat
    IN \/ /\ Len(dbMsgs) < MaxMsgs
          /\ InsertMessage(u, c)
          /\ tasks' = [tasks EXCEPT ![t].pc = "sm_insert", ![t].resp = OkResp(<<>>)]
          /\ UNCHANGED <<dbChats, dbParts, error, messages>>
       \/ /\ \E m \in ErrMsgs :
               tasks' = [tasks EXCEPT ![t].pc = "sm_insert", ![t].resp = ErrResp(m)]
          /\ UNCHANGED <<dbVars, feedQ, error, messages>>

SendMessageStart(t) ==
    /\ tasks[t].pc = "sm_user"
    /\ IF tasks[t].user = NoUser THEN SendMessageUnauthenticated(t)
                                 ELSE SendMessageInsert(t)
    /\ ret' = NoReturn /\ UNCHANGED <<firstFound, lastTyping, staleWrite, authStore, dbUsers, errorFrom, lostError, lateWrite, authUser, subs, chats, activeChat, typingUsers,
                   loading>>

\* A failure path that still stamps the chat, which C14 must exclude
SendMessageInsertFailedTouching(t) ==
    /\ error' = tasks[t].resp.msg
    /\ tasks' = [tasks EXCEPT ![t] = Idle]
    /\ TouchChat(tasks[t].chat)
    /\ UNCHANGED <<dbParts, dbMsgs>>

\* if (error) { set({ error: error.message }); return; }
SendMessageInsertFailed(t) ==
    /\ error' = tasks[t].resp.msg
    /\ tasks' = [tasks EXCEPT ![t] = Idle]
    /\ UNCHANGED <<dbVars, feedQ>>

\* await supabase.from('chats').update({ updated_at }).eq('id', chatId)
SendMessageTouch(t) ==
    /\ \/ /\ TouchChat(tasks[t].chat)
          /\ tasks' = [tasks EXCEPT ![t].pc = "sm_update", ![t].resp = OkResp(<<>>)]
       \/ /\ \E m \in ErrMsgs :
               tasks' = [tasks EXCEPT ![t].pc = "sm_update", ![t].resp = ErrResp(m)]
          /\ UNCHANGED <<clock, dbChats, feedQ>>
    /\ UNCHANGED <<dbParts, dbMsgs, error>>

SendMessageResume(t) ==
    /\ tasks[t].pc = "sm_insert"
    /\ IF tasks[t].resp.st = "err" THEN SendMessageInsertFailed(t)
                                   ELSE SendMessageTouch(t)
    /\ ret' = NoReturn /\ UNCHANGED <<firstFound, lastTyping, staleWrite, authStore, dbUsers, lateWrite, authUser, subs, chats, activeChat, messages,
                   typingUsers, loading>>

\* the update's result is not read; the operation returns
SendMessageDone(t) ==
    /\ tasks[t].pc = "sm_update"
    /\ tasks' = [tasks EXCEPT ![t] = Idle]
    /\ ret' = NoReturn /\ UNCHANGED <<firstFound, lastTyping, staleWrite, authStore, dbUsers, errorFrom, lostError, lateWrite, authUser, dbVars, subs, feedQ, storeVars>>

-----------------------------------------------------------------------------
(* createDirectChat *)

\* The value an operation resolves to, with who called it for whom; had tells
\* whether a direct chat of exactly the two users existed when the existence
\* check ran
Return(kind, t, result) ==
    [kind |-> kind, user |-> tasks[t].user, target |-> tasks[t].target,
     result |-> result, had |-> tasks[t].qual # {}]

UserIdsOf(c) == {p.user_id : p \in ParticipantsOf(c)}

\* The direct chats of the pair in the Data Service
Qualifying(me, other) ==
    {c \in 1..Len(dbChats) : /\ dbChats[c].type = "direct"
                             /\ UserIdsOf(c) = {me, other}
                             /\ Cardinality(UserIdsOf(c)) = 2}

\* .from('chats').select('id, chat_participants!inner(user_id)').eq('type', 'direct')
RECURSIVE DirectRows(_)
DirectRows(S) ==
    IF S = {} THEN <<>>
    ELSE LET c == CHOOSE x \in S : \A y \in S : x <= y
         IN <<[id |-> c, user_ids |-> UserIdsOf(c)]>> \o DirectRows(S \ {c})

DirectChatsQuery ==
    DirectRows({c \in VisibleChats(authUser) : dbChats[c].type = "direct"})

\* participantIds.includes(user.id) && participantIds.includes(userId)
\*   && participantIds.length === 2
IsDirectChatOf(row, me, other) ==
    /\ me \in row.user_ids
    /\ other \in row.user_ids
    /\ Cardinality(row.user_ids) = 2

\* existingChats?.find(...): the rows come in no stated order, so any matching
\* row can be the first
FindDirectChat(data, me, other) ==
    {data[i].id : i \in {j \in 1..Len(data) : IsDirectChatOf(data[j], me, other)}}

\* const { data: { user } } = await supabase.auth.getUser()
CreateDirectChatCall(t, userId) ==
    /\ CanStart(t)
    /\ tasks' = [tasks EXCEPT ![t] =
                   [Idle EXCEPT !.kind = "createDirectChat", !.pc = "cd_user",
                                !.user = authUser, !.target = userId]]
    /\ ret' = NoReturn /\ UNCHANGED <<firstFound, lastTyping, staleWrite, authStore, dbUsers, errorFrom, lostError, lateWrite, authUser, dbVars, subs, feedQ, storeVars>>

\* A refusal that comes after the chat insert, which C17 must exclude
ReturnNotAuthenticatedLate(t) ==
    /\ ret' = Return(tasks[t].kind, t, ErrorResult(NotAuthenticated))
    /\ tasks' = [tasks EXCEPT ![t] = Idle]
    /\ Len(dbChats) < MaxChats
    /\ clock' = clock + 1
    /\ dbChats' = Append(dbChats, [type |-> "direct", name |-> "",
                                   created_by |-> NoUser, updated_at |-> clock + 1])
    /\ UNCHANGED <<dbParts, dbMsgs>>

\* if (!user) return { error: 'Not authenticated' }
ReturnNotAuthenticated(t) ==
    /\ ret' = Return(tasks[t].kind, t, ErrorResult(NotAuthenticated))
    /\ tasks' = [tasks EXCEPT ![t] = Idle]
    /\ UNCHANGED dbVars

\* const { data: existingChats } = await supabase.from('chats').select(...)
CreateDirectChatCheck(t) ==
    /\ \E r \in {OkResp(DirectChatsQuery)} \cup {ErrResp(m) : m \in ErrMsgs} :
          tasks' = [tasks EXCEPT ![t].pc = "cd_check", ![t].resp = r,
                                 ![t].qual = Qualifying(tasks[t].user, tasks[t].target)]
    /\ ret' = NoReturn /\ UNCHANGED <<dbVars>>

CreateDirectChatStart(t) ==
    /\ tasks[t].pc = "cd_user"
    /\ IF tasks[t].user = NoUser THEN ReturnNotAuthenticated(t)
                                 ELSE CreateDirectChatCheck(t)
    /\ UNCHANGED <<firstFound, lastTyping, staleWrite, authStore, dbUsers, errorFrom, lostError, lateWrite, authUser, subs, feedQ, storeVars>>

\* .from('chats').insert({ type, name, created_by: user.id }).select().single()
InsertChat(t, type, name) ==
    \/ /\ Len(dbChats) < MaxChats
       /\ clock' = clock + 1
       /\ dbChats' = Append(dbChats, [type |-> type, name |-> name,
                                      created_by |-> tasks[t].user,
                                      updated_at |-> clock + 1])
       /\ tasks' = [tasks EXCEPT ![t].pc = "c_chat", ![t].resp = OkResp(<<>>),
                                 ![t].newChat = Len(dbChats) + 1]
    \/ /\ \E m \in ErrMsgs :
            tasks' = [tasks EXCEPT ![t].pc = "c_chat", ![t].resp = ErrResp(m)]
       /\ UNCHANGED <<clock, dbChats>>

\* if (directChat) return { chatId: directChat.id }; else create the chat
CreateDirectChatChecked(t) ==
    /\ tasks[t].pc = "cd_check"
    /\ LET found == FindDirectChat(tasks[t].resp.data, tasks[t].user, tasks[t].target)
       IN IF found # {}
          THEN /\ \E c \in found :
                     ret' = Return("createDirectChat", t, ChatIdResult(c))
               /\ tasks' = [tasks EXCEPT ![t] = Idle]
               /\ UNCHANGED <<clock, dbChats>>
          ELSE /\ InsertChat(t, "direct", "")
               /\ ret' = NoReturn
    /\ UNCHANGED <<errorFrom, lostError, lateWrite, staleWrite, lastTyping, authStore, dbUsers, authUser,
                   dbParts, dbMsgs, subs,
                   feedQ, storeVars>>

\* if (chatError) return { error: chatError.message }   (and participantError)
ReturnError(t) ==
    /\ ret' = Return(tasks[t].kind, t, ErrorResult(tasks[t].resp.msg))
    /\ tasks' = [tasks EXCEPT ![t] = Idle]
    /\ UNCHANGED dbParts

DuplicateKey == "duplicate key value violates unique constraint"

\* A batch insert that keeps its first row when it fails, which C15 must exclude
InsertParticipantsPartly(t, rows) ==
    \/ /\ dbParts' = dbParts \cup Range(rows)
       /\ tasks' = [tasks EXCEPT ![t].pc = "c_parts", ![t].resp = OkResp(<<>>)]
    \/ /\ \E m \in ErrMsgs :
            tasks' = [tasks EXCEPT ![t].pc = "c_parts", ![t].resp = ErrResp(m)]
       /\ dbParts' = dbParts \cup {rows[1]}

\* .from('chat_participants').insert([...]): PRIMARY KEY (chat_id, user_id)
InsertParticipants(t, rows) ==
    IF \E i, j \in 1..Len(rows) : i # j /\ rows[i].user_id = rows[j].user_id
    THEN /\ tasks' = [tasks EXCEPT ![t].pc = "c_parts",
                                   ![t].resp = ErrResp(DuplicateKey)]
         /\ UNCHANGED dbParts
    ELSE \/ /\ dbParts' = dbParts \cup Range(rows)
            /\ tasks' = [tasks EXCEPT ![t].pc = "c_parts", ![t].resp = OkResp(<<>>)]
         \/ /\ \E m \in ErrMsgs :
                 tasks' = [tasks EXCEPT ![t].pc = "c_parts", ![t].resp = ErrResp(m)]
            /\ UNCHANGED dbParts

\* [{ chat_id, user_id: user.id }, { chat_id, user_id: userId }]; is_admin DEFAULT false
DirectParticipants(t) ==
    << [chat_id |-> tasks[t].newChat, user_id |-> tasks[t].user,   is_admin |-> FALSE],
       [chat_id |-> tasks[t].newChat, user_id |-> tasks[t].target, is_admin |-> FALSE] >>

\* A participant list whose creator is no admin, which C16 must exclude
GroupParticipantsNoAdmin(t) ==
    << [chat_id |-> tasks[t].newChat, user_id |-> tasks[t].user, is_admin |-> FALSE] >>
    \o [i \in 1..Len(tasks[t].members) |->
          [chat_id |-> tasks[t].newChat, user_id |-> tasks[t].members[i],
           is_admin |-> FALSE]]

\* [{ ..., user_id: user.id, is_admin: true }, ...userIds.map(... is_admin: false)]
GroupParticipants(t) ==
    << [chat_id |-> tasks[t].newChat, user_id |-> tasks[t].user, is_admin |-> TRUE] >>
    \o [i \in 1..Len(tasks[t].members) |->
          [chat_id |-> tasks[t].newChat, user_id |-> tasks[t].members[i],
           is_admin |-> FALSE]]

\* the chat insert returned: report its error, or insert the participants
CreateChatInserted(t) ==
    /\ tasks[t].pc = "c_chat"
    /\ IF tasks[t].resp.st = "err"
       THEN ReturnError(t)
       ELSE /\ InsertParticipants(t, IF tasks[t].kind = "createDirectChat"
                                     THEN DirectParticipants(t)
                                     ELSE GroupParticipants(t))
            /\ ret' = NoReturn
    /\ UNCHANGED <<firstFound, lastTyping, staleWrite, authStore, dbUsers, errorFrom, lostError, lateWrite, authUser, clock, dbChats, dbMsgs, subs, feedQ, storeVars>>

\* return { chatId: chat.id }
ReturnChatId(t) ==
    /\ ret' = Return(tasks[t].kind, t, ChatIdResult(tasks[t].newChat))
    /\ tasks' = [tasks EXCEPT ![t] = Idle]
    /\ UNCHANGED dbParts

\* the participant insert returned
CreateChatFinish(t) ==
    /\ tasks[t].pc = "c_parts"
    /\ IF tasks[t].resp.st = "err" THEN ReturnError(t) ELSE ReturnChatId(t)
    /\ UNCHANGED <<firstFound, lastTyping, staleWrite, authStore, dbUsers, errorFrom, lostError, lateWrite, authUser, clock, dbChats, dbMsgs, subs, feedQ, storeVars>>

-----------------------------------------------------------------------------
(* createGroupChat *)

\* const { data: { user } } = await supabase.auth.getUser()
CreateGroupChatCall(t, name, userIds) ==
    /\ CanStart(t)
    /\ tasks' = [tasks EXCEPT ![t] =
                   [Idle EXCEPT !.kind = "createGroupChat", !.pc = "cg_user",
                                !.user = authUser, !.target = name,
                                !.members = userIds]]
    /\ ret' = NoReturn /\ UNCHANGED <<firstFound, lastTyping, staleWrite, authStore, dbUsers, errorFrom, lostError, lateWrite, authUser, dbVars, subs, feedQ, storeVars>>

\* if (!user) return { error }; else insert the chat
CreateGroupChatStart(t) ==
    /\ tasks[t].pc = "cg_user"
    /\ IF tasks[t].user = NoUser
       THEN /\ ReturnNotAuthenticated(t)
       ELSE /\ InsertChat(t, "group", tasks[t].target)
            /\ ret' = NoReturn /\ UNCHANGED <<dbParts, dbMsgs>>
    /\ UNCHANGED <<firstFound, lastTyping, staleWrite, authStore, dbUsers, errorFrom, lostError, lateWrite, authUser, subs, feedQ, storeVars>>

-----------------------------------------------------------------------------
(* subscribeToChat and its feed handler *)

\* supabase.channel(`chat-${chatId}`).on('postgres_changes', ...).subscribe()
SubscribeToChat(c) ==
    /\ Len(subs) < MaxSubs
    /\ subs' = Append(subs, [table |-> "messages", chat |-> c, active |-> TRUE,
                             calls |-> 0])
    /\ ret' = NoReturn /\ UNCHANGED <<firstFound, lastTyping, staleWrite, authStore, dbUsers, errorFrom, lostError, lateWrite, authUser, dbVars, feedQ, storeVars, tasks>>

\* The Update Feed's unsubscribe: it releases the channel, which delivers no
\* event from then on; a released channel stays released
RemoveChannel(channels, s) ==
    [channels EXCEPT ![s].active = FALSE]

\* A teardown that finds the channel by its name, and so releases every
\* channel of the same table and chat, which C20 must exclude
UnsubscribeByName(s) ==
    /\ s \in 1..Len(subs)
    /\ subs[s].calls < MaxCalls
    /\ subs' = [x \in 1..Len(subs) |->
                  IF x = s THEN [subs[x] EXCEPT !.active = FALSE, !.calls = @ + 1]
                  ELSE IF subs[x].table = subs[s].table /\ subs[x].chat = subs[s].chat
                       THEN [subs[x] EXCEPT !.active = FALSE]
                       ELSE subs[x]]
    /\ feedQ' = {e \in feedQ : subs'[e.sub].active}
    /\ ret' = NoReturn /\ UNCHANGED <<firstFound, lastTyping, staleWrite, authStore, dbUsers, errorFrom, lostError, lateWrite, authUser, dbVars, storeVars, tasks>>

\* A teardown that releases nothing, which C18 must exclude
UnsubscribeNothing(s) ==
    /\ s \in 1..Len(subs)
    /\ subs[s].calls < MaxCalls
    /\ subs' = [subs EXCEPT ![s].calls = @ + 1]
    /\ ret' = NoReturn /\ UNCHANGED <<firstFound, lastTyping, staleWrite, authStore, dbUsers, errorFrom, lostError, lateWrite, authUser, dbVars, feedQ, storeVars, tasks>>

\* () => supabase.removeChannel(channel): the handle returned by
\* subscribeToChat and subscribeToChats, invoked once more
Unsubscribe(s) ==
    /\ s \in 1..Len(subs)
    /\ subs[s].calls < MaxCalls
    /\ subs' = [RemoveChannel(subs, s) EXCEPT ![s].calls = @ + 1]
    /\ feedQ' = {e \in feedQ : e.sub # s}
    /\ ret' = NoReturn /\ UNCHANGED <<firstFound, lastTyping, staleWrite, authStore, dbUsers, errorFrom, lostError, lateWrite, authUser, dbVars, storeVars, tasks>>

\* supabase.channel('chats').on('postgres_changes', { event: '*', table: 'chats' }, ...).subscribe()
SubscribeToChats ==
    /\ Len(subs) < MaxSubs
    /\ subs' = Append(subs, [table |-> "chats", chat |-> 0, active |-> TRUE,
                             calls |-> 0])
    /\ ret' = NoReturn /\ UNCHANGED <<firstFound, lastTyping, staleWrite, authStore, dbUsers, errorFrom, lostError, lateWrite, authUser, dbVars, feedQ, storeVars, tasks>>

\* A callback that patches the chat collection itself in place of a load,
\* which C21 must exclude
ChatsHandlerPatching(t, e) ==
    /\ CanStart(t)
    /\ e \in feedQ
    /\ subs[e.sub].table = "chats"
    /\ subs[e.sub].active
    /\ \A f \in feedQ : f.sub = e.sub => e.at <= f.at
    /\ feedQ' = feedQ \ {e}
    /\ chats' = TransformChats(ChatsQuery)
    /\ ret' = NoReturn /\ UNCHANGED <<firstFound, lastTyping, staleWrite, authStore, dbUsers, lateWrite, authUser, dbVars, subs, tasks, loading,
                   error, activeChat, messages, typingUsers>>

\* The feed delivers an event of a chats channel: () => { get().fetchChats() }
ChatsHandlerCall(t, e) ==
    /\ CanStart(t)
    /\ e \in feedQ
    /\ subs[e.sub].table = "chats"
    /\ subs[e.sub].active
    /\ \A f \in feedQ : f.sub = e.sub => e.at <= f.at
    /\ feedQ' = feedQ \ {e}
    /\ FetchChatsBegin(t, e.sub)
    /\ ret' = NoReturn /\ UNCHANGED <<firstFound, lastTyping, staleWrite, authStore, dbUsers, lateWrite, authUser, dbVars, subs, chats, activeChat, messages,
                   typingUsers>>

\* .select(...).eq('id', payload.new.id).single(): the row whatever its
\* deleted flag, or an error when the row is not visible
RefetchMessage(m) ==
    IF CanViewMessage(m) THEN {OkResp(<<MessageRow(m)>>)}
                         ELSE {ErrResp("PGRST116")}

\* The feed delivers an event: the handler starts and awaits its re-fetch.
\* A channel delivers its events in the order of the inserts; the handlers'
\* re-fetches complete in any order.
FeedHandlerCall(t, e) ==
    /\ CanStart(t)
    /\ e \in feedQ
    /\ subs[e.sub].table = "messages"
    /\ subs[e.sub].active
    /\ \A f \in feedQ : f.sub = e.sub => e.msg <= f.msg
    /\ feedQ' = feedQ \ {e}
    /\ \E r \in RefetchMessage(e.msg) \cup {ErrResp(m) : m \in ErrMsgs} :
          tasks' = [tasks EXCEPT ![t] =
                      [Idle EXCEPT !.kind = "feedHandler", !.pc = "fh_await",
                                   !.chat = subs[e.sub].chat, !.msg = e.msg,
                                   !.sub = e.sub, !.resp = r]]
    /\ ret' = NoReturn /\ UNCHANGED <<firstFound, lastTyping, staleWrite, authStore, dbUsers, errorFrom, lostError, lateWrite, authUser, dbVars, subs, storeVars>>

\* [chatId]: [...(state.messages[chatId] || []), message]
FeedAppend(list, message) == Append(list, message)

\* A handler that drops the re-fetched message once its channel is released,
\* which C19 must exclude
FeedHandlerResumeCancelled(t) ==
    /\ tasks[t].pc = "fh_await"
    /\ IF tasks[t].resp.st = "ok" /\ subs[tasks[t].sub].active
       THEN messages' = [messages EXCEPT ![tasks[t].chat] =
                            FeedAppend(messages[tasks[t].chat], tasks[t].resp.data[1])]
       ELSE UNCHANGED messages
    /\ tasks' = [tasks EXCEPT ![t] = Idle]
    /\ ret' = NoReturn /\ UNCHANGED <<firstFound, lastTyping, staleWrite, authStore, dbUsers, errorFrom, lostError, authUser, dbVars, subs, feedQ, chats, activeChat,
                   typingUsers, loading, error>>

\* if (message) { set(state => ({ messages: { ...state.messages, [chatId]: ... } })) }
FeedHandlerResume(t) ==
    /\ tasks[t].pc = "fh_await"
    /\ IF tasks[t].resp.st = "ok"
       THEN messages' = [messages EXCEPT ![tasks[t].chat] =
                            FeedAppend(messages[tasks[t].chat], tasks[t].resp.data[1])]
       ELSE UNCHANGED messages
    /\ tasks' = [tasks EXCEPT ![t] = Idle]
    /\ ret' = NoReturn /\ UNCHANGED <<firstFound, lastTyping, staleWrite, authStore, dbUsers, errorFrom, lostError, authUser, dbVars, subs, feedQ, chats, activeChat,
                   typingUsers, loading, error>>

-----------------------------------------------------------------------------
(* Local mutations: typing indicators, clearError, setActiveChat *)

\* state.typingUsers.filter(t => !(t.chat_id === chatId && t.user_id === userId))
WithoutTyping(list, c, u) ==
    SelectSeq(list, LAMBDA x : ~(x.chat_id = c /\ x.user_id = u))

\* An add that does not replace the pair's entry, which C24 must exclude
AddTypingUserAppending(c, u) ==
    /\ typingUsers' = Append(typingUsers, [user_id |-> u, chat_id |-> c])
    /\ lastTyping' = [lastTyping EXCEPT ![<<c, u>>] = "add"]
    /\ ret' = NoReturn
    /\ UNCHANGED <<firstFound, staleWrite, authStore, dbUsers, errorFrom, lostError, lateWrite,
                   authUser, dbVars, subs, feedQ, chats, activeChat, messages,
                   loading, error, tasks>>

\* addTypingUser(chatId, userId)
AddTypingUser(c, u) ==
    /\ typingUsers' = Append(WithoutTyping(typingUsers, c, u),
                             [user_id |-> u, chat_id |-> c])
    /\ lastTyping' = [lastTyping EXCEPT ![<<c, u>>] = "add"]
    /\ ret' = NoReturn
    /\ UNCHANGED <<firstFound, staleWrite, authStore, dbUsers, errorFrom, lostError, lateWrite,
                   authUser, dbVars, subs, feedQ, chats, activeChat, messages,
                   loading, error, tasks>>

\* removeTypingUser(chatId, userId)
RemoveTypingUser(c, u) ==
    /\ typingUsers' = WithoutTyping(typingUsers, c, u)
    /\ lastTyping' = [lastTyping EXCEPT ![<<c, u>>] = "remove"]
    /\ ret' = NoReturn
    /\ UNCHANGED <<firstFound, staleWrite, authStore, dbUsers, errorFrom, lostError, lateWrite,
                   authUser, dbVars, subs, feedQ, chats, activeChat, messages,
                   loading, error, tasks>>

\* A clearError that resets the loading flag as well, which C25 must exclude
ClearErrorAndLoading ==
    /\ error' = NoError
    /\ loading' = FALSE
    /\ ret' = [NoReturn EXCEPT !.kind = "clearError"]
    /\ UNCHANGED <<firstFound, lastTyping, staleWrite, authStore, dbUsers, errorFrom, lostError,
                   lateWrite, authUser, dbVars, subs, feedQ, chats, activeChat,
                   messages, typingUsers, tasks>>

\* clearError: () => set({ error: null })
clearError ==
    /\ error' = NoError
    /\ ret' = [NoReturn EXCEPT !.kind = "clearError"]
    /\ UNCHANGED <<firstFound, lastTyping, staleWrite, authStore, dbUsers, errorFrom, lostError,
                   lateWrite, authUser, dbVars, subs, feedQ, chats, activeChat,
                   messages, typingUsers, loading, tasks>>

\* setActiveChat: (chat) => set({ activeChat: chat })
setActiveChat(c) ==
    /\ activeChat' = c
    /\ ret' = NoReturn
    /\ UNCHANGED <<firstFound, lastTyping, staleWrite, authStore, dbUsers, errorFrom, lostError,
                   lateWrite, authUser, dbVars, subs, feedQ, chats, messages,
                   typingUsers, loading, error, tasks>>

-----------------------------------------------------------------------------
(* The auth store: signOut, fetchProfile and the auth listener *)

\* RLS "Users can update own profile": UPDATE ... USING (auth.uid() = id)
UpdateStatus(table, id, status) ==
    IF authUser = id THEN [table EXCEPT ![id] = status] ELSE table

\* The responses an update of the users table can get; a failed one wrote
\* nothing
StatusUpdates(id, status) ==
    {[resp |-> OkResp(<<>>), table |-> UpdateStatus(dbUsers, id, status)]}
    \cup {[resp |-> ErrResp(m), table |-> dbUsers] : m \in ErrMsgs}

\* await supabase.auth.signOut(): the client's session ends, unless the call
\* fails; signOut does not read the result
AuthSignOut(t) ==
    /\ \E r \in {OkResp(<<>>)} \cup {ErrResp(m) : m \in ErrMsgs} :
          /\ authUser' = IF r.st = "ok" THEN NoUser ELSE authUser
          /\ tasks' = [tasks EXCEPT ![t] =
                         [Idle EXCEPT !.kind = "signOut", !.pc = "so_auth",
                                      !.resp = r]]

\* A signOut that gives up when the presence write fails, which C26 must
\* exclude
SignOutOfflineDoneOrAbort(t) ==
    /\ tasks[t].pc = "so_offline"
    /\ IF tasks[t].resp.st = "err"
       THEN /\ tasks' = [tasks EXCEPT ![t] = Idle]
            /\ authStore' = [authStore EXCEPT !.loading = FALSE,
                                              !.error = tasks[t].resp.msg]
            /\ UNCHANGED authUser
       ELSE AuthSignOut(t) /\ UNCHANGED authStore
    /\ ret' = NoReturn /\ UNCHANGED dbUsers
    /\ UNCHANGED <<firstFound, lastTyping, staleWrite, errorFrom, lostError, lateWrite, dbVars,
                   subs, feedQ, storeVars>>

\* signOut: set({ loading: true }); if (profile) await update status offline;
\* else await supabase.auth.signOut()
SignOutCall(t) ==
    /\ CanStart(t)
    /\ authStore' = [authStore EXCEPT !.loading = TRUE]
    /\ IF authStore.profile # NoUser
       THEN /\ \E w \in StatusUpdates(authStore.profile, "offline") :
                  /\ dbUsers' = w.table
                  /\ tasks' = [tasks EXCEPT ![t] =
                                 [Idle EXCEPT !.kind = "signOut", !.pc = "so_offline",
                                              !.user = authStore.profile,
                                              !.resp = w.resp]]
            /\ UNCHANGED authUser
       ELSE AuthSignOut(t) /\ UNCHANGED dbUsers
    /\ ret' = NoReturn
    /\ UNCHANGED <<firstFound, lastTyping, staleWrite, errorFrom, lostError, lateWrite, dbVars,
                   subs, feedQ, storeVars>>

\* the presence write has returned (its result is not read):
\* await supabase.auth.signOut()
SignOutOfflineDone(t) ==
    /\ tasks[t].pc = "so_offline"
    /\ AuthSignOut(t)
    /\ ret' = NoReturn /\ UNCHANGED <<authStore, dbUsers>>
    /\ UNCHANGED <<firstFound, lastTyping, staleWrite, errorFrom, lostError, lateWrite, dbVars,
                   subs, feedQ, storeVars>>

\* set({ user: null, session: null, profile: null, loading: false, error: null })
SignOutDone(t) ==
    /\ tasks[t].pc = "so_auth"
    /\ authStore' = [user |-> NoUser, session |-> NoUser, profile |-> NoUser,
                     loading |-> FALSE, error |-> NoError]
    /\ tasks' = [tasks EXCEPT ![t] = Idle]
    /\ ret' = [NoReturn EXCEPT !.kind = "signOut"]
    /\ UNCHANGED <<authUser, dbUsers>>
    /\ UNCHANGED <<firstFound, lastTyping, staleWrite, errorFrom, lostError, lateWrite, dbVars,
                   subs, feedQ, storeVars>>

\* onAuthStateChange(event, session): setSession(session); setUser(...);
\* if (session?.user) setTimeout(() => fetchProfile(), 0)
AuthStateChange(t) ==
    /\ authStore' = [authStore EXCEPT !.session = authUser, !.user = authUser]
    /\ IF authUser # NoUser
       THEN /\ CanStart(t)
            /\ tasks' = [tasks EXCEPT ![t] =
                           [Idle EXCEPT !.kind = "fetchProfile", !.pc = "fp_timer"]]
       ELSE UNCHANGED tasks
    /\ ret' = NoReturn /\ UNCHANGED <<authUser, dbUsers>>
    /\ UNCHANGED <<firstFound, lastTyping, staleWrite, errorFrom, lostError, lateWrite, dbVars,
                   subs, feedQ, storeVars>>

\* the timer fires: fetchProfile reads the store's user, returns if there is
\* none, else set({ loading: true }) and await select('*').eq('id', user.id)
FetchProfileStart(t) ==
    /\ tasks[t].pc = "fp_timer"
    /\ IF authStore.user = NoUser
       THEN /\ tasks' = [tasks EXCEPT ![t] = Idle]
            /\ UNCHANGED authStore
       ELSE /\ authStore' = [authStore EXCEPT !.loading = TRUE]
            /\ \E r \in {OkResp(<<authStore.user>>)} \cup {ErrResp(m) : m \in ErrMsgs} :
                  tasks' = [tasks EXCEPT ![t] =
                              [Idle EXCEPT !.kind = "fetchProfile", !.pc = "fp_select",
                                           !.user = authStore.user, !.resp = r]]
    /\ ret' = NoReturn /\ UNCHANGED <<authUser, dbUsers>>
    /\ UNCHANGED <<firstFound, lastTyping, staleWrite, errorFrom, lostError, lateWrite, dbVars,
                   subs, feedQ, storeVars>>

\* the select has returned: on error set({ loading: false, error }); else
\* set({ profile: data, loading: false }) and await update status online
FetchProfileResume(t) ==
    /\ tasks[t].pc = "fp_select"
    /\ IF tasks[t].resp.st = "err"
       THEN /\ authStore' = [authStore EXCEPT !.loading = FALSE,
                                              !.error = tasks[t].resp.msg]
            /\ tasks' = [tasks EXCEPT ![t] = Idle]
            /\ UNCHANGED dbUsers
       ELSE /\ authStore' = [authStore EXCEPT !.profile = tasks[t].resp.data[1],
                                              !.loading = FALSE]
            /\ \E w \in StatusUpdates(tasks[t].user, "online") :
                  /\ dbUsers' = w.table
                  /\ tasks' = [tasks EXCEPT ![t].pc = "fp_online", ![t].resp = w.resp]
    /\ ret' = NoReturn /\ UNCHANGED authUser
    /\ UNCHANGED <<firstFound, lastTyping, staleWrite, errorFrom, lostError, lateWrite, dbVars,
                   subs, feedQ, storeVars>>

\* the presence write has returned (its result is not read)
FetchProfileDone(t) ==
    /\ tasks[t].pc = "fp_online"
    /\ tasks' = [tasks EXCEPT ![t] = Idle]
    /\ ret' = NoReturn /\ UNCHANGED <<authStore, authUser, dbUsers>>
    /\ UNCHANGED <<firstFound, lastTyping, staleWrite, errorFrom, lostError, lateWrite, dbVars,
                   subs, feedQ, storeVars>>

-----------------------------------------------------------------------------
(* ChatSidebar: the name shown for a chat *)

Undefined == "undefined"

\* otherParticipant?.user?.display_name: the participant's property 'user',
\* undefined when the object has no property of that name
UserDisplayName(p) ==
    IF "user" \in DOMAIN p THEN p.user.display_name ELSE Undefined

\* x || fallback
OrElse(x, fallback) == IF x \in {Undefined, ""} THEN fallback ELSE x

\* chat.participants?.find(p => p.user_id !== profile?.id): the first match
\* in the order the Data Service returned the participants, which the query
\* does not fix, so any of the matches
find(participants, profileId) == {p \in participants : p.user_id # profileId}

\* getChatName(chat): the values it can return for the store's profile
getChatName(chat, profileId) ==
    IF chat.type = "group"
    THEN {OrElse(chat.name, "Unnamed Group")}
    ELSE IF find(chat.participants, profileId) = {}
         THEN {"Unknown User"}
         ELSE {OrElse(UserDisplayName(p), "Unknown User") :
                  p \in find(chat.participants, profileId)}

\* the sidebar renders the name of the i-th chat of the collection
RenderChatName(i) ==
    /\ i \in 1..Len(chats)
    /\ \E n \in getChatName(chats[i], authStore.profile) :
          ret' = [NoReturn EXCEPT !.kind = "getChatName",
                                  !.user = authStore.profile,
                                  !.result = [tag |-> "name", id |-> i, msg |-> n]]
    /\ UNCHANGED <<firstFound, lastTyping, staleWrite, authStore, dbUsers, errorFrom, lostError,
                   lateWrite, authUser, dbVars, subs, feedQ, storeVars, tasks>>

-----------------------------------------------------------------------------
(* The environment: other clients of the Data Service, and the session *)

\* another participant of the chat sends a message
OtherClientInsert(u, c) ==
    /\ u # authUser
    /\ c \in get_user_chat_ids(u)
    /\ Len(dbMsgs) < MaxMsgs
    /\ InsertMessage(u, c)
    /\ ret' = NoReturn /\ UNCHANGED <<firstFound, lastTyping, staleWrite, authStore, dbUsers, errorFrom, lostError, lateWrite, authUser, dbChats, dbParts, subs, storeVars, tasks>>

\* a sender soft-deletes a message: UPDATE messages SET deleted = true
SoftDelete(m) ==
    /\ m \in 1..Len(dbMsgs)
    /\ dbMsgs[m].deleted = FALSE
    /\ dbMsgs' = [dbMsgs EXCEPT ![m].deleted = TRUE]
    /\ ret' = NoReturn /\ UNCHANGED <<firstFound, lastTyping, staleWrite, authStore, dbUsers, errorFrom, lostError, lateWrite, authUser, clock, dbChats, dbParts, subs, feedQ, storeVars, tasks>>

\* another client's sendMessage stamps the chat's updated_at
ChatActivity(c) ==
    /\ c \in 1..Len(dbChats)
    /\ clock < MaxClock
    /\ TouchChat(c)
    /\ ret' = NoReturn
    /\ UNCHANGED <<firstFound, lastTyping, staleWrite, authStore, dbUsers, errorFrom, lostError, lateWrite, authUser, dbParts, dbMsgs, subs, storeVars, tasks>>

\* the session changes (sign-in as u, or sign-out)
SessionChange(u) ==
    /\ u # authUser
    /\ authUser' = u
    /\ ret' = NoReturn /\ UNCHANGED <<firstFound, lastTyping, staleWrite, authStore, dbUsers, errorFrom, lostError, lateWrite, dbVars, subs, feedQ, storeVars, tasks>>

-----------------------------------------------------------------------------
Init ==
    /\ authUser = "u1"
    /\ clock = 2
    /\ dbChats = << [type |-> "group",  name |-> "Team", created_by |-> "u1",
                     updated_at |-> 1],
                    [type |-> "direct", name |-> "",     created_by |-> "u1",
                     updated_at |-> 2] >>
    /\ dbParts = { [chat_id |-> 1, user_id |-> "u1", is_admin |-> TRUE],
                   [chat_id |-> 1, user_id |-> "u2", is_admin |-> FALSE],
                   [chat_id |-> 2, user_id |-> "u1", is_admin |-> FALSE],
                   [chat_id |-> 2, user_id |-> "u3", is_admin |-> FALSE] }
    /\ dbMsgs = <<>>
    /\ subs = <<>>
    /\ feedQ = {}
    /\ chats = <<>>
    /\ activeChat = 0
    /\ messages = [c \in ChatIds |-> <<>>]
    /\ typingUsers = <<>>
    /\ loading = FALSE
    /\ error = NoError
    /\ tasks = [t \in TaskIds |-> Idle]
    /\ ret = NoReturn
    /\ firstFound = NoFound
    /\ errorFrom = NoOrigin
    /\ lostError = {}
    /\ lastTyping = [p \in TypingPairs |-> "none"]
    /\ lateWrite = {}
    /\ staleWrite = {}
    /\ authStore = [user |-> NoUser, session |-> NoUser, profile |-> NoUser,
                    loading |-> TRUE, error |-> NoError]
    /\ dbUsers = [u \in Users |-> "offline"]

MsgChats   == {1, 2}
Sessions   == {NoUser, "u1", "u2"}
GroupNames == {"Team"}
GroupLists == {<<"u2">>, <<"u2", "u3">>, <<"u2", "u1">>}

\* The chat-list side of the store: loading the list while the session and
\* the chats' activity change
Next ==
    \/ \E t \in TaskIds : FetchChatsCall(t) /\ UNCHANGED <<errorFrom, lostError>>
    \/ \E t \in TaskIds : FetchChatsResume(t) /\ UNCHANGED <<errorFrom, lostError, lateWrite, staleWrite>>
    \/ \E c \in ChatIds : ChatActivity(c)
    \/ \E u \in Sessions : SessionChange(u)

Spec == Init /\ [][Next]_vars

\* Creating direct chats, under a changing session
NextCreate ==
    \/ \E t \in TaskIds, u \in Users : CreateDirectChatCall(t, u)
    \/ \E t \in TaskIds : CreateDirectChatStart(t)
    \/ \E t \in TaskIds : CreateDirectChatChecked(t) /\ UNCHANGED firstFound
    \/ \E t \in TaskIds : CreateChatInserted(t)
    \/ \E t \in TaskIds : CreateChatFinish(t)
    \/ \E u \in Sessions : SessionChange(u)

SpecCreate == Init /\ [][NextCreate]_vars

\* History: remember the first existing chat a createDirectChat resolves to
RecordFound ==
    firstFound' = IF firstFound = NoFound
                  THEN [pair |-> {ret'.user, ret'.target}, id |-> ret'.result.id]
                  ELSE firstFound

PairUsers == {"u1", "u2"}

\* createDirectChat called repeatedly for one pair of users, by either of them
NextTwice ==
    \/ \E t \in TaskIds, u \in PairUsers :
          u # authUser /\ CreateDirectChatCall(t, u)
    \/ \E t \in TaskIds : CreateDirectChatStart(t)
    \/ \E t \in TaskIds :
          /\ CreateDirectChatChecked(t)
          /\ IF ret'.result.tag = "chatId" THEN RecordFound ELSE UNCHANGED firstFound
    \/ \E t \in TaskIds : CreateChatInserted(t)
    \/ \E t \in TaskIds : CreateChatFinish(t)
    \/ \E u \in PairUsers : SessionChange(u)

SpecTwice == Init /\ [][NextTwice]_vars

\* Creating group chats, under a changing session
NextGroup ==
    \/ \E t \in TaskIds, n \in GroupNames, l \in GroupLists :
          CreateGroupChatCall(t, n, l)
    \/ \E t \in TaskIds : CreateGroupChatStart(t)
    \/ \E t \in TaskIds : CreateChatInserted(t)
    \/ \E t \in TaskIds : CreateChatFinish(t)
    \/ \E u \in Sessions : SessionChange(u)

SpecGroup == Init /\ [][NextGroup]_vars

\* The message side of the store: history loads, the feed and its handler,
\* with other clients writing messages
NextMsg ==
    \/ \E t \in TaskIds, c \in MsgChats : FetchMessagesCall(t, c)
    \/ \E t \in TaskIds : FetchMessagesResume(t) /\ UNCHANGED <<errorFrom, lostError, staleWrite>>
    \/ \E c \in MsgChats : subs = <<>> /\ SubscribeToChat(c)
    \/ \E s \in 1..Len(subs) : subs[s].active /\ Unsubscribe(s)
    \/ \E t \in TaskIds, e \in feedQ : FeedHandlerCall(t, e)
    \/ \E t \in TaskIds : FeedHandlerResume(t) /\ UNCHANGED lateWrite
    \/ \E u \in Users, c \in MsgChats : OtherClientInsert(u, c)
    \/ \E m \in 1..MaxMsgs : SoftDelete(m)

SpecMsg == Init /\ [][NextMsg]_vars

\* Sending: sendMessage under a changing session, with loads of the history
NextSend ==
    \/ \E t \in TaskIds, c \in MsgChats : SendMessageCall(t, c)
    \/ \E t \in TaskIds : SendMessageStart(t)
    \/ \E t \in TaskIds : SendMessageResume(t) /\ UNCHANGED <<errorFrom, lostError>>
    \/ \E t \in TaskIds : SendMessageDone(t)
    \/ \E u \in Sessions : SessionChange(u)
    \/ \E t \in TaskIds, c \in MsgChats : FetchMessagesCall(t, c)
    \/ \E t \in TaskIds : FetchMessagesResume(t) /\ UNCHANGED <<errorFrom, lostError, staleWrite>>

SpecSend == Init /\ [][NextSend]_vars

\* History: whose failure the error field holds after a step of task t
FailureOrigin(t) ==
    IF tasks[t].kind = "fetchMessages"
    THEN [op |-> "fetchMessages", chat |-> tasks[t].chat]
    ELSE [op |-> tasks[t].kind, chat |-> 0]

RecordError(t) ==
    /\ errorFrom' = IF tasks[t].resp.st = "err" THEN FailureOrigin(t) ELSE errorFrom
    /\ UNCHANGED lostError

\* The error field: chat-list loads and history loads of two chats failing
\* and succeeding in any order
NextErr ==
    \/ \E t \in TaskIds : FetchChatsCall(t) /\ errorFrom' = NoOrigin /\ UNCHANGED lostError
    \/ \E t \in TaskIds : FetchChatsResume(t) /\ RecordError(t) /\ UNCHANGED <<lateWrite, staleWrite>>
    \/ \E t \in TaskIds, c \in MsgChats : FetchMessagesCall(t, c)
    \/ \E t \in TaskIds : FetchMessagesResume(t) /\ RecordError(t) /\ UNCHANGED staleWrite
    \/ \E u \in Users, c \in MsgChats : OtherClientInsert(u, c)

SpecErr == Init /\ [][NextErr]_vars


\* Sending with the feed open: the sender's own client has the chat's channel
\* open and loads its history while it sends
NextOwn ==
    \/ \E t \in TaskIds, c \in MsgChats : SendMessageCall(t, c)
    \/ \E t \in TaskIds : SendMessageStart(t)
    \/ \E t \in TaskIds : SendMessageResume(t) /\ UNCHANGED <<errorFrom, lostError>>
    \/ \E t \in TaskIds : SendMessageDone(t)
    \/ \E c \in MsgChats : subs = <<>> /\ SubscribeToChat(c)
    \/ \E t \in TaskIds, e \in feedQ : FeedHandlerCall(t, e)
    \/ \E t \in TaskIds : FeedHandlerResume(t) /\ UNCHANGED lateWrite
    \/ \E t \in TaskIds, c \in MsgChats : FetchMessagesCall(t, c)
    \/ \E t \in TaskIds : FetchMessagesResume(t) /\ UNCHANGED <<errorFrom, lostError, staleWrite>>

SpecOwn == Init /\ [][NextOwn]_vars


SignedOutOrIn == {NoUser, "u1"}

\* Both ways of creating a chat, signed in or signed out
NextBoth ==
    \/ \E t \in TaskIds, u \in Users : CreateDirectChatCall(t, u)
    \/ \E t \in TaskIds : CreateDirectChatStart(t)
    \/ \E t \in TaskIds : CreateDirectChatChecked(t) /\ UNCHANGED firstFound
    \/ \E t \in TaskIds, n \in GroupNames, l \in GroupLists :
          CreateGroupChatCall(t, n, l)
    \/ \E t \in TaskIds : CreateGroupChatStart(t)
    \/ \E t \in TaskIds : CreateChatInserted(t)
    \/ \E t \in TaskIds : CreateChatFinish(t)
    \/ \E u \in SignedOutOrIn : SessionChange(u)

SpecBoth == Init /\ [][NextBoth]_vars

\* History: which parts of the store a task wrote after the channel whose
\* callback started it had been released
RecordLate(t, part) ==
    lateWrite' = IF /\ tasks[t].resp.st = "ok"
                    /\ tasks[t].sub # 0
                    /\ ~subs[tasks[t].sub].active
                 THEN lateWrite \cup {part}
                 ELSE lateWrite

FeedChats == {1}

\* Opening and tearing down feeds: channels on a chat's messages and on the
\* chats table are opened, their handles invoked (more than once), while
\* other clients write messages and stamp chats
NextFeed ==
    \/ \E c \in FeedChats : SubscribeToChat(c)
    \/ SubscribeToChats
    \/ \E s \in 1..MaxSubs : Unsubscribe(s)
    \/ \E t \in TaskIds, e \in feedQ : FeedHandlerCall(t, e)
    \/ \E t \in TaskIds : FeedHandlerResume(t) /\ RecordLate(t, "messages")
    \/ \E t \in TaskIds, e \in feedQ : ChatsHandlerCall(t, e) /\ UNCHANGED <<errorFrom, lostError>>
    \/ \E t \in TaskIds :
          FetchChatsResume(t) /\ RecordLate(t, "chats") /\ UNCHANGED <<errorFrom, lostError, staleWrite>>
    \/ \E u \in Users, c \in FeedChats : OtherClientInsert(u, c)
    \/ \E c \in FeedChats : ChatActivity(c)

SpecFeed == Init /\ [][NextFeed]_vars

\* History: a load's response replaced a collection that agreed with the
\* backend by one that does not (an older response arriving late)
RecordStale(t) ==
    staleWrite' =
        IF tasks[t].resp.st # "ok" THEN staleWrite
        ELSE IF /\ tasks[t].kind = "fetchChats"
                /\ chats = TransformChats(ChatsQuery)
                /\ tasks[t].resp.data # ChatsQuery
             THEN staleWrite \cup {"chats"}
        ELSE IF /\ tasks[t].kind = "fetchMessages"
                /\ messages[tasks[t].chat] # <<>>
                /\ messages[tasks[t].chat] = MessagesQuery(tasks[t].chat)
                /\ tasks[t].resp.data # MessagesQuery(tasks[t].chat)
             THEN staleWrite \cup {"messages"}
        ELSE staleWrite

RaceChats == {1}

\* Overlapping loads: several loadChats and loadMessages of one chat in flight
\* while other clients stamp chats and write messages
NextRace ==
    \/ \E t \in TaskIds : FetchChatsCall(t) /\ UNCHANGED <<errorFrom, lostError>>
    \/ \E t \in TaskIds :
          FetchChatsResume(t) /\ RecordStale(t) /\ UNCHANGED <<errorFrom, lostError, lateWrite>>
    \/ \E t \in TaskIds, c \in RaceChats : FetchMessagesCall(t, c)
    \/ \E t \in TaskIds : FetchMessagesResume(t) /\ RecordStale(t) /\ UNCHANGED <<errorFrom, lostError>>
    \/ \E u \in Users, c \in RaceChats : OtherClientInsert(u, c)
    \/ \E c \in RaceChats : ChatActivity(c)

SpecRace == Init /\ [][NextRace]_vars

\* History: the message a failing loadChats replaced. loadChats cleared the
\* field when it started, so that message is the failure of an operation
\* that ran while the loadChats was in flight
RecordLost(t) ==
    lostError' = IF /\ tasks[t].resp.st = "err"
                    /\ tasks[t].kind = "fetchChats"
                    /\ error \in ErrMsgs
                    /\ error # tasks[t].resp.msg
                 THEN lostError \cup {error}
                 ELSE lostError

FailChats == {1}

\* Failing operations side by side: loadChats, loadMessages and sendMessage
\* in flight together, each of which may fail
NextFail ==
    \/ \E t \in TaskIds : FetchChatsCall(t) /\ UNCHANGED <<errorFrom, lostError>>
    \/ \E t \in TaskIds :
          FetchChatsResume(t) /\ RecordLost(t)
             /\ UNCHANGED <<errorFrom, lateWrite, staleWrite>>
    \/ \E t \in TaskIds, c \in FailChats : FetchMessagesCall(t, c)
    \/ \E t \in TaskIds :
          FetchMessagesResume(t) /\ UNCHANGED <<errorFrom, lostError, staleWrite>>
    \/ \E t \in TaskIds, c \in FailChats : SendMessageCall(t, c)
    \/ \E t \in TaskIds : SendMessageStart(t)
    \/ \E t \in TaskIds : SendMessageResume(t) /\ UNCHANGED <<errorFrom, lostError>>
    \/ \E t \in TaskIds : SendMessageDone(t)

SpecFail == Init /\ [][NextFail]_vars

\* The local mutations, made while a loadChats runs (and may fail)
NextLocal ==
    \/ \E p \in TypingPairs : AddTypingUser(p[1], p[2])
    \/ \E p \in TypingPairs : RemoveTypingUser(p[1], p[2])
    \/ clearError
    \/ \E c \in {0} \cup TypingChats : setActiveChat(c)
    \/ \E t \in TaskIds : FetchChatsCall(t) /\ UNCHANGED <<errorFrom, lostError>>
    \/ \E t \in TaskIds :
          FetchChatsResume(t) /\ RecordError(t) /\ UNCHANGED <<lateWrite, staleWrite>>

SpecLocal == Init /\ [][NextLocal]_vars

AuthUsers == {"u1"}

\* The auth store: the listener is called with the client's session, the
\* deferred fetchProfile runs, the user signs out and signs in again
NextAuth ==
    \/ \E t \in TaskIds : authUser # NoUser /\ AuthStateChange(t)
    \/ \E t \in TaskIds : FetchProfileStart(t)
    \/ \E t \in TaskIds : FetchProfileResume(t)
    \/ \E t \in TaskIds : FetchProfileDone(t)
    \/ \E t \in TaskIds : SignOutCall(t)
    \/ \E t \in TaskIds : SignOutOfflineDone(t)
    \/ \E t \in TaskIds : SignOutDone(t)
    \/ \E u \in AuthUsers : SessionChange(u)

SpecAuth == Init /\ [][NextAuth]_vars

\* ChatWindow's effect for one chat: fetchMessages(chat.id), then
\* subscribeToChat(chat.id) in the same tick, and the cleanup on unmount.
\* The history is loaded this once, so what messages[chat.id] holds before
\* the load completes was appended by the feed handler
NextWindow ==
    \/ \E t \in TaskIds, c \in MsgChats :
          /\ subs = <<>>
          /\ \A x \in TaskIds : Free(x)
          /\ FetchMessagesCall(t, c)
    \/ /\ subs = <<>>
       /\ tasks[1].kind = "fetchMessages"
       /\ SubscribeToChat(tasks[1].chat)
    \/ \E t \in TaskIds :
          /\ subs # <<>>
          /\ FetchMessagesResume(t) /\ UNCHANGED <<errorFrom, lostError, staleWrite>>
    \/ \E s \in 1..Len(subs) : subs[s].active /\ Unsubscribe(s)
    \/ \E t \in TaskIds, e \in feedQ : FeedHandlerCall(t, e)
    \/ \E t \in TaskIds : FeedHandlerResume(t) /\ UNCHANGED lateWrite
    \/ \E u \in Users, c \in MsgChats : OtherClientInsert(u, c)
    \/ \E m \in 1..MaxMsgs : SoftDelete(m)

SpecWindow == Init /\ [][NextWindow]_vars

\* The chat list kept fresh: the sidebar loads it, and the callback of one
\* chats channel loads it again on every event
NextSidebar ==
    \/ \E t \in TaskIds : FetchChatsCall(t) /\ UNCHANGED <<errorFrom, lostError>>
    \/ subs = <<>> /\ SubscribeToChats
    \/ \E t \in TaskIds, e \in feedQ :
          ChatsHandlerCall(t, e) /\ UNCHANGED <<errorFrom, lostError>>
    \/ \E t \in TaskIds :
          FetchChatsResume(t) /\ UNCHANGED <<errorFrom, lostError, lateWrite, staleWrite>>
    \/ \E c \in ChatIds : ChatActivity(c)

SpecSidebar == Init /\ [][NextSidebar]_vars

\* Two chats side by side: channels on both chats' messages and loads of
\* both histories, while other clients write to both chats
NextChats ==
    \/ \E c \in MsgChats :
          (\A s \in 1..Len(subs) : subs[s].chat # c) /\ SubscribeToChat(c)
    \/ \E t \in TaskIds, e \in feedQ : FeedHandlerCall(t, e)
    \/ \E t \in TaskIds : FeedHandlerResume(t) /\ UNCHANGED lateWrite
    \/ \E t \in TaskIds, c \in MsgChats : FetchMessagesCall(t, c)
    \/ \E t \in TaskIds :
          FetchMessagesResume(t) /\ UNCHANGED <<errorFrom, lostError, staleWrite>>
    \/ \E u \in Users, c \in MsgChats : OtherClientInsert(u, c)

SpecChats == Init /\ [][NextChats]_vars

\* The sidebar: the profile and the chat list are loaded, and the chats'
\* names are rendered from them
NextNames ==
    \/ \E t \in TaskIds : authUser # NoUser /\ AuthStateChange(t)
    \/ \E t \in TaskIds : FetchProfileStart(t)
    \/ \E t \in TaskIds : FetchProfileResume(t)
    \/ \E t \in TaskIds : FetchProfileDone(t)
    \/ \E t \in TaskIds : FetchChatsCall(t) /\ UNCHANGED <<errorFrom, lostError>>
    \/ \E t \in TaskIds :
          FetchChatsResume(t) /\ UNCHANGED <<errorFrom, lostError, lateWrite, staleWrite>>
    \/ \E i \in 1..MaxChats : RenderChatName(i)

SpecNames == Init /\ [][NextNames]_vars

-----------------------------------------------------------------------------
(* Properties *)

\* A step in which task t receives the response it awaits (or returns)
Returns(t) == tasks[t].pc # "idle" /\ tasks'[t] = Idle

\* C1: in every reachable state no chat's in-memory message list holds two
\* entries with the same message id (the feed handler appends the re-fetched
\* message only if its id is not already in the list).
C1_NoDuplicateIds ==
    \A c \in ChatIds : \A i, j \in 1..Len(messages[c]) :
        i # j => messages[c][i].id # messages[c][j].id

\* C2: in every reachable state each chat's in-memory message list is in
\* ascending creation-time order, whatever the interleaving of loadMessages
\* completions and feed-handler appends.
C2_AscendingCreationTime ==
    \A c \in ChatIds : \A i, j \in 1..Len(messages[c]) :
        i < j => messages[c][i].created_at <= messages[c][j].created_at

\* C3: the Data Service never holds two direct chats for the same unordered
\* pair of participant ids, whatever the interleaving of createDirectChat calls.
C3_OneDirectChatPerPair ==
    \A a, b \in Users : a # b => Cardinality(Qualifying(a, b)) <= 1

\* C4: a createDirectChat call for a pair that already had a direct chat when
\* the call checked for one inserts no chat and no participant record, and
\* resolves to the id of such a chat, the same id as any earlier such call for
\* the pair (in either order) resolved to.
C4_CreateDirectIdempotent ==
    [][\A t \in TaskIds :
         (tasks[t].kind = "createDirectChat" /\ tasks[t].qual # {}
            /\ tasks'[t] # tasks[t])
         => /\ dbChats' = dbChats
            /\ dbParts' = dbParts
            /\ Returns(t) =>
                 /\ ret'.result.tag = "chatId"
                 /\ ret'.result.id \in tasks[t].qual
                 /\ firstFound.pair = {tasks[t].user, tasks[t].target}
                       => ret'.result.id = firstFound.id]_vars

\* C5: when createDirectChat(userId) resolves to the id of an existing chat,
\* that chat is a direct chat whose participants are exactly the current user
\* and userId, two members: never a chat of the current user with a third user.
C5_ReturnsChatOfThePair ==
    [][\A t \in TaskIds :
         (tasks[t].pc = "cd_check" /\ Returns(t))
         => LET c == ret'.result.id
            IN /\ dbChats[c].type = "direct"
               /\ Cardinality(UserIdsOf(c)) = 2
               /\ tasks[t].user \in UserIdsOf(c)
               /\ tasks[t].target \in UserIdsOf(c)
               /\ UserIdsOf(c) \subseteq {tasks[t].user, tasks[t].target}]_vars

\* C6: sendMessage with no authenticated user surfaces a not-authenticated
\* error (as its result or in the store's error field) and performs no remote
\* insert or update.
C6_SendMessageNotAuthenticated ==
    [][\A t \in TaskIds :
         (tasks[t].pc = "sm_user" /\ tasks[t].user = NoUser /\ Returns(t))
         => /\ ret'.result.tag = "error" \/ error' = NotAuthenticated
            /\ UNCHANGED dbVars]_vars

\* C7: every remote failure inside a store operation is reported: the step
\* that receives a failed response either resolves the operation to that
\* error or sets the store's error field to its message.
C7_EveryFailureReported ==
    [][\A t \in TaskIds :
         (tasks[t].resp.st = "err" /\ tasks'[t] # tasks[t])
         => \/ error' = tasks[t].resp.msg
            \/ ret'.result.tag = "error" /\ ret'.result.msg = tasks[t].resp.msg]_vars

\* C8: no step of a loadChats whose fetch fails changes the in-memory chat
\* collection; when the failure arrives the error field takes the failure
\* message and loading becomes false.
C8_FailedLoadChatsLeavesChats ==
    [][\A t \in TaskIds :
         /\ (tasks[t].pc = "idle" /\ tasks'[t].kind = "fetchChats") => chats' = chats
         /\ (tasks[t].pc = "fc_await" /\ tasks[t].resp.st = "err" /\ Returns(t))
              => /\ chats' = chats
                 /\ error' = tasks[t].resp.msg
                 /\ loading' = FALSE]_vars

\* C8 witness: a chat list loaded earlier is still there after a failed load
C8_Witness ==
    /\ Len(chats) = 2
    /\ error \in ErrMsgs
    /\ loading = FALSE
    /\ \A t \in TaskIds : tasks[t].pc = "idle"

\* C9: a successful loadChats replaces the whole chat collection with the
\* fetched result: the same chats in the same order and no others, most
\* recently updated first, each carrying its participant list.
C9_LoadChatsReplaces ==
    [][\A t \in TaskIds :
         (tasks[t].pc = "fc_await" /\ tasks[t].resp.st = "ok" /\ Returns(t))
         => LET d == tasks[t].resp.data
            IN /\ Len(chats') = Len(d)
               /\ \A i \in 1..Len(d) :
                    /\ chats'[i].id = d[i].id
                    /\ chats'[i].participants = d[i].chat_participants
                    /\ chats'[i].participants # {}
                    /\ i < Len(d) => chats'[i].updated_at >= chats'[i + 1].updated_at]_vars

\* C9 witness: a load completed after chat 1 became the most recently updated,
\* and the collection holds both chats with chat 1 first
C9_Witness ==
    /\ Len(chats) = 2
    /\ chats[1].id = 1
    /\ chats[1].updated_at > chats[2].updated_at
    /\ chats[1].participants # {}
    /\ loading = FALSE
    /\ \A t \in TaskIds : tasks[t].pc = "idle"

\* C10: a successful loadMessages(chatId) replaces messages[chatId] with the
\* fetched history and leaves the message list of every other chat unchanged.
C10_LoadMessagesFrame ==
    [][\A t \in TaskIds :
         (tasks[t].pc = "fm_await" /\ tasks[t].resp.st = "ok" /\ Returns(t))
         => /\ messages'[tasks[t].chat] = tasks[t].resp.data
            /\ \A c \in ChatIds \ {tasks[t].chat} : messages'[c] = messages[c]]_vars

\* C10 witness: two chats' histories are both loaded (no feed is open), so the
\* second load kept the first chat's list
C10_Witness ==
    /\ subs = <<>>
    /\ messages[1] # <<>>
    /\ messages[2] # <<>>

\* C11: when a loadMessages(chatId) fetch fails, every chat's message list is
\* unchanged and the failure is recorded in an error state scoped to that
\* chat: the error field takes the failure message, and a failure reported
\* for another chat or for a chat-list load is not replaced by it.
C11_FailureScopedToChat ==
    [][\A t \in TaskIds :
         (tasks[t].pc = "fm_await" /\ tasks[t].resp.st = "err" /\ Returns(t))
         => /\ messages' = messages
            /\ (errorFrom.op # "none" /\ errorFrom # FailureOrigin(t))
                  => error' = error]_vars

\* C12: no entry of any chat's in-memory message list was read from the Data
\* Service with its deleted flag true, whether loadMessages or the feed
\* handler's re-fetch wrote it.
C12_NoDeletedEntryWritten ==
    \A c \in ChatIds : \A i \in 1..Len(messages[c]) :
        messages[c][i].deleted = FALSE

\* C13: no step of a sendMessage changes the in-memory message lists; a step
\* that changes them is the completion of a loadMessages or of a feed
\* handler's re-fetch.
C13_SendMessageLeavesMessages ==
    [][/\ \A t \in TaskIds :
            (/\ tasks[t].kind = "sendMessage" \/ tasks'[t].kind = "sendMessage"
             /\ tasks'[t] # tasks[t])
            => messages' = messages
       /\ messages' # messages
            => \E t \in TaskIds : /\ tasks[t].kind \in {"fetchMessages", "feedHandler"}
                                  /\ Returns(t)]_vars

\* C13 witness: a message the current user sent is stored, its sendMessage has
\* returned, the chat's channel is open, and the chat's in-memory list is
\* still empty
C13_Witness ==
    /\ \A t \in TaskIds : tasks[t].pc = "idle"
    /\ \E m \in 1..Len(dbMsgs) :
          /\ dbMsgs[m].sender_id = authUser
          /\ messages[dbMsgs[m].chat_id] = <<>>
          /\ \E s \in 1..Len(subs) : subs[s].chat = dbMsgs[m].chat_id

\* C14: sendMessage issues the chat's timestamp update only after its message
\* insert has succeeded; when the insert fails the error field takes the
\* failure message, the operation returns and no update is issued.
C14_UpdateAfterInsert ==
    [][\A t \in TaskIds :
         /\ (tasks'[t].pc = "sm_update" /\ tasks[t].pc # "sm_update")
              => /\ tasks[t].pc = "sm_insert"
                 /\ tasks[t].resp.st = "ok"
                 /\ \E m \in 1..Len(dbMsgs) :
                       /\ dbMsgs[m].chat_id = tasks[t].chat
                       /\ dbMsgs[m].sender_id = tasks[t].user
         /\ (tasks[t].pc = "sm_insert" /\ tasks[t].resp.st = "err"
                /\ tasks'[t] # tasks[t])
              => /\ error' = tasks[t].resp.msg
                 /\ Returns(t)
                 /\ dbChats' = dbChats
         /\ (tasks[t].kind = "sendMessage" /\ tasks'[t] # tasks[t]
                /\ dbChats' # dbChats)
              => tasks[t].pc = "sm_insert" /\ tasks[t].resp.st = "ok"]_vars

\* C14 witness: one sendMessage has inserted its message and issued the update,
\* which stamped the chat after the message; another one's insert has failed
\* and its chat is not stamped
C14_Witness ==
    \E t, u \in TaskIds :
        /\ tasks[t].pc = "sm_update"
        /\ tasks[t].resp.st = "ok"
        /\ \E m \in 1..Len(dbMsgs) :
              /\ dbMsgs[m].chat_id = tasks[t].chat
              /\ dbChats[tasks[t].chat].updated_at > dbMsgs[m].created_at
        /\ tasks[u].pc = "sm_insert"
        /\ tasks[u].resp.st = "err"
        /\ tasks[u].chat # tasks[t].chat
        /\ dbChats[tasks[u].chat].updated_at <= 2

\* C15: in createDirectChat and createGroupChat the participant insert is
\* issued only after the chat insert has succeeded; when the participant
\* insert fails the operation resolves to that error, the created chat stays
\* in the Data Service with no participants, and nothing is written to undo it.
C15_HalfCreatedChatStays ==
    [][\A t \in TaskIds :
         /\ (tasks'[t].pc = "c_parts" /\ tasks[t].pc # "c_parts")
              => /\ tasks[t].pc = "c_chat"
                 /\ tasks[t].resp.st = "ok"
                 /\ tasks[t].newChat \in 1..Len(dbChats)
         /\ (tasks[t].pc = "c_parts" /\ tasks[t].resp.st = "err"
                /\ tasks'[t] # tasks[t])
              => /\ Returns(t)
                 /\ ret'.result = ErrorResult(tasks[t].resp.msg)
                 /\ dbChats' = dbChats
                 /\ dbParts' = dbParts
                 /\ dbMsgs' = dbMsgs
                 /\ tasks[t].newChat \in 1..Len(dbChats)
                 /\ UserIdsOf(tasks[t].newChat) = {}]_vars

\* C15 witness: a create operation has just resolved to an error, no operation
\* is in flight, and the chat it created is stored with no participants
C15_Witness ==
    /\ ret.result.tag = "error"
    /\ ret.result.msg \in ErrMsgs \cup {DuplicateKey}
    /\ \A t \in TaskIds : tasks[t].pc = "idle"
    /\ Len(dbChats) = 3
    /\ UserIdsOf(3) = {}

\* C16: a createGroupChat(name, userIds) by user U that resolves to a chat id
\* has created one chat of type group with that name and created_by U, whose
\* participant rows are exactly (U, admin) and (id, not admin) for every id of
\* userIds, written by one insert.
C16_GroupChatCreated ==
    [][\A t \in TaskIds :
         tasks[t].kind = "createGroupChat" =>
           /\ Len(dbChats') > Len(dbChats)
                => /\ tasks[t].pc = "cg_user" => Len(dbChats') = Len(dbChats) + 1
                   /\ tasks[t].pc # "cg_user" => tasks'[t] = tasks[t]
           /\ (tasks[t].pc = "c_chat" /\ tasks'[t] # tasks[t])
                => dbParts' \in {dbParts, dbParts \cup Range(GroupParticipants(t))}
           /\ (Returns(t) /\ ret'.result.tag = "chatId")
                => LET c == ret'.result.id
                   IN /\ c = tasks[t].newChat
                      /\ dbChats[c].type = "group"
                      /\ dbChats[c].name = tasks[t].target
                      /\ dbChats[c].created_by = tasks[t].user
                      /\ {p \in dbParts : p.chat_id = c} =
                            {[chat_id |-> c, user_id |-> tasks[t].user,
                              is_admin |-> TRUE]}
                            \cup {[chat_id |-> c, user_id |-> tasks[t].members[i],
                                   is_admin |-> FALSE] :
                                      i \in 1..Len(tasks[t].members)}]_vars

\* C16 witness: createGroupChat("Team", <<u2, u3>>) by u1 has just resolved to
\* the id of a chat with the three participants
C16_Witness ==
    /\ ret.kind = "createGroupChat"
    /\ ret.result.tag = "chatId"
    /\ ret.user = "u1"
    /\ ret.result.id \in 1..Len(dbChats)
    /\ dbChats[ret.result.id].type = "group"
    /\ UserIdsOf(ret.result.id) = {"u1", "u2", "u3"}

\* C17: createDirectChat and createGroupChat called with no authenticated user
\* resolve to the error 'Not authenticated' at once: no query is issued and
\* nothing is inserted.
C17_CreateNotAuthenticated ==
    [][\A t \in TaskIds :
         (tasks[t].pc \in {"cd_user", "cg_user"} /\ tasks[t].user = NoUser
            /\ tasks'[t] # tasks[t])
         => /\ Returns(t)
            /\ ret'.result = ErrorResult(NotAuthenticated)
            /\ ret'.kind = tasks[t].kind
            /\ UNCHANGED dbVars]_vars

\* C17 witness: signed out, a create operation has just resolved to
\* 'Not authenticated' and the tables are as they were
C17_Witness ==
    /\ authUser = NoUser
    /\ ret.kind \in {"createDirectChat", "createGroupChat"}
    /\ ret.result = ErrorResult(NotAuthenticated)
    /\ Len(dbChats) = 2
    /\ Cardinality(dbParts) = 4

\* C18: once the handle returned by subscribeToChat(chatId) has been invoked,
\* no feed event is handled for its channel any more: every feed handler
\* starts for a channel whose handle has not been invoked, no event waits
\* for a released channel, and a step that changes a message list without
\* completing a load or a handler started before the teardown does not exist.
C18_NoEventAfterTeardown ==
    [][/\ \A t \in TaskIds :
            (tasks[t].pc = "idle" /\ tasks'[t].kind = "feedHandler")
            => /\ subs[tasks'[t].sub].calls = 0
               /\ subs[tasks'[t].sub].active
               /\ messages' = messages
       /\ \A e \in feedQ' : subs'[e.sub].calls = 0
       /\ messages' # messages
            => \E t \in TaskIds : /\ tasks[t].kind \in {"fetchMessages", "feedHandler"}
                                  /\ Returns(t)]_vars

\* C18 witness: the only channel (on chat 1) has been torn down after its
\* handler appended message 1; message 2 was written to the chat as well, no
\* event and no task is pending, and the list still holds message 1 alone
C18_Witness ==
    /\ Len(subs) = 1
    /\ subs[1].table = "messages" /\ subs[1].chat = 1
    /\ subs[1].calls >= 1
    /\ Len(dbMsgs) = 2
    /\ dbMsgs[2].chat_id = 1
    /\ feedQ = {}
    /\ \A t \in TaskIds : tasks[t].pc = "idle"
    /\ Len(messages[1]) = 1
    /\ messages[1][1].id = 1
    /\ lateWrite = {}

\* C19: teardown cancels nothing in flight. A step that invokes a handle
\* leaves every task as it was; a feed handler whose re-fetch succeeds appends
\* the row to messages[chatId], and a loadChats whose fetch succeeds writes
\* chats, whether or not the channel that started it has been released since;
\* the witness is the execution in which both writes come after the teardown.
C19_TeardownCancelsNothing ==
    [][/\ (\E s \in 1..Len(subs) : subs'[s].calls > subs[s].calls) => tasks' = tasks
       /\ \A t \in TaskIds :
            /\ (tasks[t].pc = "fh_await" /\ tasks[t].resp.st = "ok"
                   /\ tasks'[t] # tasks[t])
                 => /\ Len(messages'[tasks[t].chat]) = Len(messages[tasks[t].chat]) + 1
                    /\ messages'[tasks[t].chat][Len(messages'[tasks[t].chat])]
                          = tasks[t].resp.data[1]
            /\ (tasks[t].pc = "fc_await" /\ tasks[t].resp.st = "ok"
                   /\ tasks'[t] # tasks[t])
                 => chats' = TransformChats(tasks[t].resp.data)]_vars

\* C19 witness: a re-fetch started by the messages channel's callback and a
\* loadChats started by the chats channel's callback have both written the
\* store after their channels were released
C19_Witness ==
    /\ lateWrite = {"messages", "chats"}
    /\ \A s \in 1..Len(subs) : ~subs[s].active
    /\ messages[1] # <<>>
    /\ chats # <<>>
    /\ \A t \in TaskIds : tasks[t].pc = "idle"

C21_EventStartsLoadChats ==
    [][/\ \A e \in feedQ :
            (e \notin feedQ' /\ subs[e.sub].table = "chats" /\ subs'[e.sub].active)
            => /\ Cardinality({t \in TaskIds : tasks'[t] # tasks[t]}) = 1
               /\ \E t \in TaskIds :
                     /\ tasks[t].pc = "idle"
                     /\ tasks'[t].kind = "fetchChats"
                     /\ tasks'[t].sub = e.sub
               /\ loading' = TRUE
               /\ chats' = chats
       /\ chats' # chats
            => \E t \in TaskIds :
                  /\ tasks[t].pc = "fc_await" /\ tasks[t].resp.st = "ok"
                  /\ Returns(t)
                  /\ chats' = TransformChats(tasks[t].resp.data)]_vars

\* C21 witness: with the chats channel open and never torn down, chat 1 was
\* stamped, the event's loadChats has completed and the collection lists
\* chat 1 first with its new timestamp
C21_Witness ==
    /\ \E s \in 1..Len(subs) :
          subs[s].table = "chats" /\ subs[s].active /\ subs[s].calls = 0
    /\ feedQ = {}
    /\ \A t \in TaskIds : tasks[t].pc = "idle"
    /\ lateWrite = {}
    /\ Len(chats) = 2
    /\ chats[1].id = 1
    /\ chats[1].updated_at = dbChats[1].updated_at
    /\ dbChats[1].updated_at > 2

\* C22: no request fencing. When two loadChats, or two loadMessages of one
\* chat, are in flight together and one receives a successful response, the
\* collection becomes that response and the other load stays in flight; every
\* successful completion writes its own response whatever is stored, so
\* after both the collection is the response of the one that completed last,
\* also when that response is the older one.
C22_LastCompletionWins ==
    [][\A t \in TaskIds :
         (tasks[t].pc \in {"fc_await", "fm_await"} /\ tasks[t].resp.st = "ok"
            /\ tasks'[t] # tasks[t])
         => /\ tasks[t].kind = "fetchChats"
                 => chats' = TransformChats(tasks[t].resp.data)
            /\ tasks[t].kind = "fetchMessages"
                 => messages'[tasks[t].chat] = tasks[t].resp.data
            /\ \A u \in TaskIds \ {t} : tasks'[u] = tasks[u]]_vars

\* C22 witness: in both collections a response computed from older backend
\* data has replaced the up-to-date one; nothing is in flight any more and
\* the store shows neither chat 1's stamp nor its message
C22_Witness ==
    /\ staleWrite = {"chats", "messages"}
    /\ \A t \in TaskIds : tasks[t].pc = "idle"
    /\ chats # TransformChats(ChatsQuery)
    /\ messages[1] # MessagesQuery(1)

\* A step in which task t receives the failed response of its fetch or of
\* its message insert
FailedStep(t) ==
    /\ tasks[t].pc \in {"fc_await", "fm_await", "sm_insert"}
    /\ tasks[t].resp.st = "err"
    /\ tasks'[t] # tasks[t]

\* C23 as stated: one shared error field, which a failure overwrites whatever
\* it holds (the message of the failure written last stays, the earlier one
\* is lost), and a failed fetch or send changes no other field of the store:
\* chats, activeChat, messages, typingUsers and loading are as before.
C23_FailureChangesErrorOnly ==
    [][\A t \in TaskIds :
         FailedStep(t)
         => /\ error' = tasks[t].resp.msg
            /\ UNCHANGED <<chats, activeChat, messages, typingUsers, loading>>]_vars

\* C23 amended: one shared error field, which a failure overwrites whatever
\* it holds (the message of the failure written last stays, the earlier one
\* is lost); a failed fetch or send leaves chats, activeChat, messages and
\* typingUsers unchanged, and leaves loading unchanged too unless it is a
\* failed loadChats, which sets loading to false.
C23_FailureOverwritesError ==
    [][\A t \in TaskIds :
         FailedStep(t)
         => /\ error' = tasks[t].resp.msg
            /\ UNCHANGED <<chats, activeChat, messages, typingUsers>>
            /\ loading' = IF tasks[t].kind = "fetchChats" THEN FALSE ELSE loading]_vars

\* C23 witness: a loadChats and another operation ran together and both
\* failed; the field holds the loadChats failure E1, written last, and the
\* other operation's message E2 is lost
C23_Witness ==
    /\ lostError = {"E2"}
    /\ error = "E1"
    /\ loading = FALSE
    /\ chats = <<>>
    /\ \A t \in TaskIds : tasks[t].pc = "idle"

\* Positions of the (chatId, userId) pair p in the typing set
TypingEntries(list, p) ==
    {i \in 1..Len(list) : list[i].chat_id = p[1] /\ list[i].user_id = p[2]}

\* C24: after every sequence of addTypingUser/removeTypingUser calls the
\* typing set holds at most one entry per (chatId, userId) pair, and a pair is
\* a member exactly when the last call on it was an add; a removeTypingUser
\* on an absent pair leaves the typing set unchanged and sets no error.
C24_TypingSetFollowsLastCall ==
    [][/\ \A p \in TypingPairs :
            /\ Cardinality(TypingEntries(typingUsers', p)) <= 1
            /\ TypingEntries(typingUsers', p) # {} <=> lastTyping'[p] = "add"
            /\ (lastTyping'[p] = "remove" /\ lastTyping[p] # "remove"
                   /\ TypingEntries(typingUsers, p) = {})
                 => /\ typingUsers' = typingUsers
                    /\ error' = error
       /\ Len(typingUsers') <= Cardinality(TypingPairs)]_vars

\* C24 witness: the pair (chat 1, u2) was added again after (chat 2, u3), so
\* its one entry is the last one; (chat 1, u3) was removed after an add and
\* (chat 2, u2) was removed without ever being added
C24_Witness ==
    /\ Len(typingUsers) = 2
    /\ typingUsers[1] = [user_id |-> "u3", chat_id |-> 2]
    /\ typingUsers[2] = [user_id |-> "u2", chat_id |-> 1]
    /\ lastTyping[<<1, "u3">>] = "remove"
    /\ lastTyping[<<2, "u2">>] = "remove"
    /\ error = NoError

\* C25: clearError sets the error field to none and leaves chats, activeChat,
\* messages, typingUsers and loading unchanged.
C25_ClearErrorFrame ==
    [][ret'.kind = "clearError"
         => /\ error' = NoError
            /\ UNCHANGED <<chats, activeChat, messages, typingUsers, loading>>
            /\ UNCHANGED tasks]_vars

\* C25 witness: the only loadChats that completed failed, so the error field
\* held its message until clearError, the step just taken, reset it; the
\* active chat and the typing set are as they were set
C25_Witness ==
    /\ ret.kind = "clearError"
    /\ error = NoError
    /\ errorFrom.op = "fetchChats"
    /\ chats = <<>>
    /\ loading = FALSE
    /\ \A t \in TaskIds : tasks[t].pc = "idle"
    /\ activeChat = 2
    /\ Len(typingUsers) = 1

\* The auth store as signOut leaves it
SignedOutStore ==
    [user |-> NoUser, session |-> NoUser, profile |-> NoUser,
     loading |-> FALSE, error |-> NoError]

\* C26: when the store holds a profile, signOut issues the write of status
\* 'offline' for it first and calls the auth sign-out only when that write
\* has returned; whether the write failed or not (and also with no profile to
\* write for) the sign-out call is made, and when it returns the auth store
\* has user, session and profile none, loading false and error none.
C26_SignOutProceeds ==
    [][\A t \in TaskIds :
         /\ (tasks[t].pc = "idle" /\ tasks'[t].kind = "signOut")
              => /\ authStore'.loading
                 /\ authStore.profile # NoUser
                      => /\ tasks'[t].pc = "so_offline"
                         /\ authUser' = authUser
                         /\ (tasks'[t].resp.st = "ok" /\ authUser = authStore.profile)
                              => dbUsers'[authStore.profile] = "offline"
                 /\ authStore.profile = NoUser => tasks'[t].pc = "so_auth"
         /\ (tasks[t].pc = "so_offline" /\ tasks'[t] # tasks[t])
              => /\ tasks'[t].pc = "so_auth"
                 /\ tasks'[t].resp.st = "ok" => authUser' = NoUser
         /\ (tasks[t].pc = "so_auth" /\ tasks'[t] # tasks[t])
              => /\ Returns(t)
                 /\ authStore' = SignedOutStore]_vars

\* C26 witness: signOut has just returned; its presence write had failed, so
\* u1 is still recorded online, yet the client is signed out and the store
\* is cleared
C26_Witness ==
    /\ ret.kind = "signOut"
    /\ authUser = NoUser
    /\ authStore = SignedOutStore
    /\ dbUsers["u1"] = "online"
    /\ \A t \in TaskIds : tasks[t].pc = "idle"

\* C27: a message the feed handler appended to messages[chatId] stays in the
\* list as long as it is not deleted in the Data Service: no step removes an
\* entry whose row is still non-deleted, also not the completion of a
\* loadMessages(chatId) issued before the message was inserted.
C27_FeedAppendedMessageStays ==
    [][\A c \in ChatIds : \A i \in 1..Len(messages[c]) :
         dbMsgs'[messages[c][i].id].deleted = FALSE
         => \E j \in 1..Len(messages'[c]) : messages'[c][j].id = messages[c][i].id]_vars

\* C28: the loading flag is true in every state in which a loadChats fetch is
\* in flight, also when several loadChats overlap (one started by the
\* sidebar, one by a subscribeToChats event) and one of them has completed.
C28_LoadingWhileInFlight ==
    (\E t \in TaskIds : tasks[t].pc = "fc_await") => loading

\* C29: every entry of messages[c] is a message of chat c. A loadMessages(c)
\* completion and a subscribeToChat(c) feed handler write under key c only,
\* and what they write are rows whose chat_id is c, whatever channels and
\* fetches of other chats are in flight.
C29_EntriesBelongToChat ==
    [][/\ \A c \in ChatIds : \A i \in 1..Len(messages'[c]) :
            /\ messages'[c][i].chat_id = c
            /\ dbMsgs'[messages'[c][i].id].chat_id = c
       /\ \A t \in TaskIds :
            (tasks[t].kind \in {"fetchMessages", "feedHandler"} /\ Returns(t))
            => \A c \in ChatIds \ {tasks[t].chat} : messages'[c] = messages[c]]_vars

\* C29 witness: channels on chats 1 and 2 are both open, each chat got a
\* message, and each list holds its chat's message
C29_Witness ==
    /\ Len(subs) = 2
    /\ subs[1].active /\ subs[2].active
    /\ subs[1].chat # subs[2].chat
    /\ Len(messages[1]) = 1 /\ messages[1][1].chat_id = 1
    /\ Len(messages[2]) = 1 /\ messages[2][1].chat_id = 2
    /\ feedQ = {}
    /\ \A t \in TaskIds : tasks[t].pc = "idle"

\* C30: once signOut has completed, and until the listener sets a new
\* session, the auth store's profile is none and no write of status 'online'
\* is issued: a fetchProfile in flight, or waiting on the listener's timer,
\* when signOut ran neither restores the profile nor marks the user online.
\* (Under SpecAuth the store's session is none only before the first session
\* and from a signOut's completion to the next session.)
C30_SignedOutStaysSignedOut ==
    [][/\ authStore'.session = NoUser => authStore'.profile = NoUser
       /\ \A t \in TaskIds :
            (tasks'[t].pc = "fp_online" /\ tasks[t].pc # "fp_online")
            => authStore.session # NoUser]_vars

\* C31: for a direct chat of the collection as loadChats wrote it, and with
\* the profile loaded, getChatName returns the display name the Data Service
\* returned for the participant who is not the profile's user.
C31_DirectChatNamedAfterOther ==
    (/\ ret.kind = "getChatName"
     /\ authStore.profile # NoUser
     /\ chats[ret.result.id].type = "direct")
    => LET returned == {p \in chats[ret.result.id].chat_participants :
                           /\ p.user_id # authStore.profile
                           /\ p.users.display_name # ""}
       IN returned # {}
            => ret.result.msg \in {p.users.display_name : p \in returned}
====
